---- MODULE Spec2Model ----
(***************************************************************************)
(* Model of the Scintilla wallet facade: Wallet (construction entry points *)
(* and getAccount), Account and Persona, over the external keyring /       *)
(* mnemonic / signer / hex collaborators.                                  *)
(*                                                                         *)
(* JavaScript values are tagged records: the field t is the runtime tag,   *)
(* a property read of a field an object does not have yields undefined.    *)
(* Strings whose characters matter (wallet inputs) are sequences of code   *)
(* points in the field s; opaque strings (bech32 prefixes) are TLA+        *)
(* strings in the field text.  Keyrings, keys and addresses of the         *)
(* external collaborator are free terms over their derivation parameters:  *)
(* equal parameters give equal terms, different parameters different ones. *)
(***************************************************************************)
EXTENDS Integers, Sequences, FiniteSets, TLC

VARIABLES wallet, origin, account, accountFrom, observed, call, ret,
          persona, personaFrom, derived, heap

vars == <<wallet, origin, account, accountFrom, observed, call, ret,
          persona, personaFrom, derived, heap>>

(***************************************************************************)
(* Bounds of the model.                                                    *)
(***************************************************************************)
MaxLen == 2
MaxSeedLen == 1
MaxIndex == 1
MaxSigners == 2

(***************************************************************************)
(* JavaScript values.                                                      *)
(***************************************************************************)
Undefined == [t |-> "undefined"]
Null == [t |-> "null"]
Bool(b) == [t |-> "boolean", b |-> b]
Num(n) == [t |-> "number", n |-> n]
Str(s) == [t |-> "string", s |-> s]
Text(x) == [t |-> "string", text |-> x]
Bytes(b) == [t |-> "Uint8Array", b |-> b]
PhraseRecord(p) == [t |-> "object", phrase |-> p]
HandleRecord(k) == [t |-> "object", chainKeyring |-> k]
EmptyObject == [t |-> "object"]

\* typeof v
TypeOf(v) ==
    CASE v.t = "undefined" -> "undefined"
      [] v.t = "boolean" -> "boolean"
      [] v.t = "number" -> "number"
      [] v.t = "string" -> "string"
      [] OTHER -> "object"

\* ToBoolean(v): what !v negates
Truthy(v) ==
    CASE v.t = "undefined" -> FALSE
      [] v.t = "null" -> FALSE
      [] v.t = "boolean" -> v.b
      [] v.t = "number" -> v.n # 0
      [] v.t = "string" -> IF "s" \in DOMAIN v THEN v.s # <<>>
                           ELSE IF "text" \in DOMAIN v THEN v.text # ""
                           ELSE TRUE
      [] OTHER -> TRUE

\* v?.name : undefined on null and undefined, and for a property v lacks
Get(v, name) ==
    IF v.t \in {"undefined", "null"} THEN Undefined
    ELSE IF name \in DOMAIN v THEN v[name]
    ELSE Undefined

(***************************************************************************)
(* Characters and the hex codec.                                           *)
(***************************************************************************)
SP == 32

\* value of a hex digit, -1 for any other character
HexVal(c) ==
    IF c \in 48..57 THEN c - 48
    ELSE IF c \in 97..102 THEN c - 87
    ELSE IF c \in 65..70 THEN c - 55
    ELSE -1

\* hex.toUint8Array(s): pairs of hex digits, high nibble first
HexDecode(s) ==
    IF Len(s) % 2 # 0 \/ \E i \in 1..Len(s) : HexVal(s[i]) < 0
    THEN [ok |-> FALSE, bytes |-> <<>>]
    ELSE [ok |-> TRUE,
          bytes |-> [i \in 1..(Len(s) \div 2) |->
                        16 * HexVal(s[2 * i - 1]) + HexVal(s[2 * i])]]

HexDigit(n) == IF n < 10 THEN 48 + n ELSE 87 + n

\* the lower-case hex string of a byte sequence (what a caller writes down)
HexEncode(b) ==
    [i \in 1..(2 * Len(b)) |->
        IF i % 2 = 1 THEN HexDigit(b[(i + 1) \div 2] \div 16)
        ELSE HexDigit(b[i \div 2] % 16)]

\* input.split(' ').length
SplitLength(s) == 1 + Cardinality({i \in 1..Len(s) : s[i] = SP})

(***************************************************************************)
(* Text and bytes: UTF-8, for code points below 2048.                      *)
(***************************************************************************)
ReplacementChar == 65533

Utf8EncodeChar(c) ==
    IF c < 128 THEN <<c>> ELSE <<192 + (c \div 64), 128 + (c % 64)>>

RECURSIVE Utf8Encode(_)
Utf8Encode(chars) ==
    IF chars = <<>> THEN <<>>
    ELSE Utf8EncodeChar(Head(chars)) \o Utf8Encode(Tail(chars))

\* a lead byte of a two-byte sequence followed by a continuation byte gives
\* one character; any other byte above 127 gives the replacement character
RECURSIVE Utf8Decode(_)
Utf8Decode(b) ==
    IF b = <<>> THEN <<>>
    ELSE IF b[1] < 128 THEN <<b[1]>> \o Utf8Decode(Tail(b))
    ELSE IF /\ b[1] \in 194..223
            /\ Len(b) >= 2
            /\ b[2] \in 128..191
         THEN <<(b[1] - 192) * 64 + (b[2] - 128)>> \o Utf8Decode(Tail(Tail(b)))
    ELSE <<ReplacementChar>> \o Utf8Decode(Tail(b))

(***************************************************************************)
(* The mnemonic collaborator: toSeed is a fixed-width digest of the phrase *)
(***************************************************************************)
RECURSIVE Digest(_, _, _)
Digest(s, i, k) ==
    IF i > Len(s) THEN k
    ELSE Digest(s, i + 1, (k * 31 + s[i] * (i + 2)) % 256)

MnemonicToSeed(p) == <<Digest(p, 1, 7), Digest(p, 1, 160)>>

(***************************************************************************)
(* The keyring collaborator.                                               *)
(***************************************************************************)
SeedKeyringFromSeed(seed) == [t |-> "SeedKeyring", seed |-> seed]

getChainKeyring(seedKeyring, coinType) ==
    [t |-> "ChainKeyring", seed |-> seedKeyring.seed,
     options |-> [purpose |-> 44, coinType |-> coinType]]

getAccountKeyring(chainKeyring, index) ==
    [t |-> "AccountKeyring", chain |-> chainKeyring, account |-> index]

getAddressKeyring(keyring, index, change) ==
    [t |-> "AddressKeyring", parent |-> keyring, index |-> index,
     change |-> change]

getPrivateKey(keyring) == [t |-> "PrivateKey", of |-> keyring]

getAddress(addressKeyring, prefix) ==
    [t |-> "Address", prefix |-> prefix, keyring |-> addressKeyring]

\* new Signer(privateKey, moniker): a new object at each construction.  ref
\* is its identity among the signers made for the object the caller holds:
\* 0 is the signer the constructor of the account held made, k the k-th
\* signer a getSigner call constructed.
NewSigner(privateKey, moniker, ref) ==
    [t |-> "Signer", privateKey |-> privateKey, moniker |-> moniker, ref |-> ref]

getPersonaKeyring(accountKeyring, moniker) ==
    [t |-> "PersonaKeyring", accountKeyring |-> accountKeyring, moniker |-> moniker]

getPersonaTypedKey(personaKeyring, kind) ==
    [t |-> "PersonaTypedKey", persona |-> personaKeyring, kind |-> kind]

\* the public half of a private key
getPublicKey(privateKey) == [t |-> "PublicKey", of |-> privateKey.of]

\* personaKeyring.getMoniker(): the moniker the keyring was derived for
getMoniker(personaKeyring) == personaKeyring.moniker

(***************************************************************************)
(* The signer / signable-message collaborator.  Key and signature material *)
(* is a term; it travels as bytes (field term) or as the hex string of     *)
(* those bytes (field hexOf).                                              *)
(***************************************************************************)
AsBytes(x) == [t |-> "Uint8Array", term |-> x]
AsHex(x) == [t |-> "string", hexOf |-> x]

\* utils.hex.toUint8Array on the hex string of key or signature material
HexToBytes(v) == AsBytes(v.hexOf)

\* new SignableMessage(bytes)
SignableMessage(b) == [t |-> "SignableMessage", input |-> Bytes(b)]

\* SignableMessage.fromString(text): the message of the text's UTF-8 bytes
SignableMessageFromString(chars) == SignableMessage(Utf8Encode(chars))

\* the algorithm a call of the collaborator runs under: options.algorithm,
\* the default when options or the property is absent
DefaultAlgorithm == "secp256k1"

AlgorithmOf(options) ==
    LET algorithm == Get(options, "algorithm")
    IN  IF algorithm.t \in {"undefined", "null"} THEN DefaultAlgorithm
        ELSE algorithm.text

\* signer.sign(signableMessage, options): [signature, publicKey]
SignerSign(signer, signableMessage, options) ==
    [t |-> "Array",
     items |-> <<AsHex([t |-> "Signature", key |-> signer.privateKey,
                        msg |-> signableMessage.input.b,
                        algorithm |-> AlgorithmOf(options)]),
                 AsHex(getPublicKey(signer.privateKey))>>]

\* signableMessage.sign(signer, options)
SignableSign(signableMessage, signer, options) ==
    SignerSign(signer, signableMessage, options)

\* signableMessage.verify(signature, publicKey, options)
SignableVerify(signableMessage, signature, publicKey, options) ==
    /\ signature.t = "Uint8Array"
    /\ "term" \in DOMAIN signature
    /\ signature.term.t = "Signature"
    /\ signature.term.msg = signableMessage.input.b
    /\ signature.term.algorithm = AlgorithmOf(options)
    /\ publicKey = AsBytes(getPublicKey(signature.term.key))

\* signableMessage.encrypt(signer, options)
SignableEncrypt(signableMessage, signer) ==
    AsBytes([t |-> "Ciphertext", to |-> getPublicKey(signer.privateKey),
             msg |-> signableMessage.input.b])

\* new SignableMessage(new Uint8Array()).decrypt(message, signer, {output: 'utf8'}):
\* the text of the bytes encrypted, for a ciphertext made for the signer's key
SignableDecrypt(message, signer) ==
    IF /\ message.t = "Uint8Array"
       /\ "term" \in DOMAIN message
       /\ message.term.t = "Ciphertext"
       /\ message.term.to = getPublicKey(signer.privateKey)
    THEN [ok |-> TRUE, text |-> Str(Utf8Decode(message.term.msg))]
    ELSE [ok |-> FALSE, text |-> Undefined]

(***************************************************************************)
(* Results of calls.                                                       *)
(***************************************************************************)
InvalidInputError ==
    "Use Wallet.create() to create a new wallet with a newly generated mnemonic."
HexError == "invalid hex string"
AccountKeyringRequired == "AccountKeyring is required"
WalletAccountKeyringRequired == "Account keyring is required."
SignerNotInitialized == "Signer not initialized"
SignerRequired == "Signer is required."
InvalidMessageType == "Invalid message type"
KeyRequiredForPublicKey == "Key or Public Key is required for getting public key."
KeyRequiredForPrivateKey == "Key is required for getting private key."
DecryptError == "decryption failed"
PersonaKeyringRequired == "Persona keyring is required."

Return(v) == [ok |-> TRUE, value |-> v, err |-> "", trace |-> <<>>]
Throw(msg) == [ok |-> FALSE, value |-> Undefined, err |-> msg, trace |-> <<>>]
Entered(name, input, c, r) ==
    [r EXCEPT !.trace = <<[fn |-> name, arg |-> input, coinType |-> c]>> \o @]

\* the default written as coinType || 8888: a coin type of 0 is lost
CoinTypeOrDefault_Falsy(opt) ==
    IF opt.t = "undefined" \/ opt.n = 0 THEN 8888 ELSE opt.n

\* the destructuring default { coinType = 8888 } = {}
CoinTypeOrDefault(opt) == IF opt.t = "undefined" THEN 8888 ELSE opt.n

(***************************************************************************)
(* Wallet: the static entry points and the constructor.  Each returns      *)
(* [ok, value, err, trace]: the wallet returned or the error raised, and   *)
(* the chain of calls made, outermost first.                               *)
(***************************************************************************)
RECURSIVE Wallet_constructor(_, _)

\* fromSeed without the hex decoding: the characters taken as the bytes
Wallet_fromSeed_NoHexDecode(seedInput, opt) ==
    LET coinType == CoinTypeOrDefault(opt)
        bytes == IF TypeOf(seedInput) = "string" THEN seedInput.s ELSE seedInput.b
    IN  Entered("fromSeed", seedInput, coinType,
            Wallet_constructor(
                HandleRecord(getChainKeyring(SeedKeyringFromSeed(bytes), coinType)),
                Num(coinType)))

\* static fromSeed(seedInput, { coinType = 8888 } = {})
Wallet_fromSeed(seedInput, opt) ==
    LET coinType == CoinTypeOrDefault(opt)
        decoded == IF TypeOf(seedInput) = "string"
                   THEN HexDecode(seedInput.s)
                   ELSE [ok |-> TRUE, bytes |-> seedInput.b]
    IN  Entered("fromSeed", seedInput, coinType,
            IF ~decoded.ok THEN Throw(HexError)
            ELSE LET seedKeyring == SeedKeyringFromSeed(decoded.bytes)
                     chainKeyring == getChainKeyring(seedKeyring, coinType)
                 IN  Wallet_constructor(HandleRecord(chainKeyring), Num(coinType)))

\* static fromMnemonic(mnemonicInput, { coinType = 8888 } = {})
Wallet_fromMnemonic(mnemonicInput, opt) ==
    LET coinType == CoinTypeOrDefault(opt)
    IN  Entered("fromMnemonic", mnemonicInput, coinType,
            Wallet_fromSeed(Bytes(MnemonicToSeed(mnemonicInput.s)), Num(coinType)))

\* isMnemonic asking for more than two words
IsMnemonic_ThreeWords(input) == SplitLength(input.s) > 2

\* const isMnemonic = input.split(' ').length > 1
IsMnemonic(input) == SplitLength(input.s) > 1

\* fromArbitraryInput constructing a wallet from the phrase of a record
Wallet_fromArbitraryInput_Unwraps(input, opt) ==
    LET coinType == CoinTypeOrDefault(opt)
        typeOfInput == TypeOf(input)
    IN  Entered("fromArbitraryInput", input, coinType,
            CASE typeOfInput = "string" ->
                    IF IsMnemonic(input)
                    THEN Wallet_fromMnemonic(input, Num(coinType))
                    ELSE Wallet_fromSeed(input, Num(coinType))
              [] "phrase" \in DOMAIN input ->
                    Wallet_constructor(input.phrase, Num(coinType))
              [] OTHER -> Throw(InvalidInputError))

\* static fromArbitraryInput(input, { coinType = 8888 } = {})
Wallet_fromArbitraryInput(input, opt) ==
    LET coinType == CoinTypeOrDefault(opt)
        typeOfInput == TypeOf(input)
    IN  Entered("fromArbitraryInput", input, coinType,
            CASE typeOfInput = "string" ->
                    IF IsMnemonic(input)
                    THEN Wallet_fromMnemonic(input, Num(coinType))
                    ELSE Wallet_fromSeed(input, Num(coinType))
              [] typeOfInput = "Uint8Array" ->
                    Wallet_fromSeed(input, Num(coinType))
              [] OTHER -> Throw(InvalidInputError))

\* the constructor keeping whatever chainKeyring property its input has
Wallet_constructor_AnyHandle(input, opt) ==
    LET coinType == CoinTypeOrDefault(opt)
    IN  Entered("constructor", input, coinType,
            IF "chainKeyring" \notin DOMAIN input
            THEN Wallet_fromArbitraryInput(input, Num(coinType))
            ELSE Return([t |-> "Wallet", chainKeyring |-> input.chainKeyring]))

\* constructor(input, { coinType = 8888 } = {})
Wallet_constructor(input, opt) ==
    LET coinType == CoinTypeOrDefault(opt)
    IN  Entered("constructor", input, coinType,
            IF ~Truthy(Get(input, "chainKeyring"))
            THEN Wallet_fromArbitraryInput(input, Num(coinType))
            ELSE Return([t |-> "Wallet", chainKeyring |-> input.chainKeyring]))

\* create forgetting to hand its coinType on
Wallet_create_DropsCoinType(input, opt, generated) ==
    LET coinType == CoinTypeOrDefault(opt)
        effective == IF ~Truthy(input) THEN Str(generated) ELSE input
    IN  Entered("create", input, coinType,
            Wallet_fromArbitraryInput(effective, Undefined))

\* static create(input, { coinType = 8888 } = {}); generated is the phrase
\* Wallet.generateMnemonic() draws when it is called
Wallet_create(input, opt, generated) ==
    LET coinType == CoinTypeOrDefault(opt)
        effective == IF ~Truthy(input) THEN Str(generated) ELSE input
    IN  Entered("create", input, coinType,
            Wallet_fromArbitraryInput(effective, Num(coinType)))

(***************************************************************************)
(* Account.                                                                *)
(***************************************************************************)
\* the Account constructor without its last line: the signer stays null
Account_constructor_NoSigner(accountKeyringArg) ==
    LET accountKeyring == IF accountKeyringArg.t = "undefined" THEN Null
                          ELSE accountKeyringArg
    IN  IF ~Truthy(accountKeyring) THEN Throw(AccountKeyringRequired)
        ELSE Return([t |-> "Account", key |-> accountKeyring, signer |-> Null])

\* constructor(accountKeyring = null)
Account_constructor(accountKeyringArg) ==
    LET accountKeyring == IF accountKeyringArg.t = "undefined" THEN Null
                          ELSE accountKeyringArg
    IN  IF ~Truthy(accountKeyring) THEN Throw(AccountKeyringRequired)
        ELSE Return([t |-> "Account", key |-> accountKeyring,
                     signer |-> NewSigner(getPrivateKey(accountKeyring), Undefined, 0)])

\* toAddress storing the address keyring it derived back into this.key
Account_toAddress_RebindsKey(self, bech32PrefixArg) ==
    LET bech32Prefix == IF bech32PrefixArg.t = "undefined" THEN "sct"
                        ELSE bech32PrefixArg.text
        addressKeyring == getAddressKeyring(self.key, 0, 0)
    IN  [self |-> [self EXCEPT !.key = addressKeyring], ok |-> TRUE, err |-> "",
         value |-> getAddress(addressKeyring, bech32Prefix)]

\* toAddress(bech32Prefix = 'sct'); a method returns [self, ok, value, err]
Account_toAddress(self, bech32PrefixArg) ==
    LET bech32Prefix == IF bech32PrefixArg.t = "undefined" THEN "sct"
                        ELSE bech32PrefixArg.text
        key == Get(self, "key")
    IN  [self |-> self, ok |-> TRUE, err |-> "",
         value |-> IF key.t \in {"undefined", "null"} THEN Null
                   ELSE getAddress(getAddressKeyring(key, 0, 0), bech32Prefix)]

\* what a method hands back: this as the call leaves it, and the outcome
Method(self, r) == [self |-> self, ok |-> r.ok, err |-> r.err, value |-> r.value]

\* and of a method that may construct a signer: the count of the signers
\* constructed as well
PMethod(self, h, r) ==
    [self |-> self, heap |-> h, ok |-> r.ok, err |-> r.err, value |-> r.value]

\* the Persona constructor leaving the moniker at its default
Persona_constructor_NoMoniker(personaKeyringArg) ==
    LET personaKeyring == IF personaKeyringArg.t = "undefined" THEN Null
                          ELSE personaKeyringArg
    IN  Return([t |-> "Persona", key |-> personaKeyring, moniker |-> Text("")])

\* Persona: constructor(personaKeyring = null)
Persona_constructor(personaKeyringArg) ==
    LET personaKeyring == IF personaKeyringArg.t = "undefined" THEN Null
                          ELSE personaKeyringArg
    IN  Return([t |-> "Persona", key |-> personaKeyring,
                moniker |-> IF personaKeyring.t = "null" THEN Text("")
                            ELSE getMoniker(personaKeyring)])

\* getPersona(moniker)
Account_getPersona(self, moniker) ==
    LET key == Get(self, "key")
    IN  Method(self, Persona_constructor(
                         IF key.t \in {"undefined", "null"} THEN Undefined
                         ELSE getPersonaKeyring(key, moniker)))

\* parseMessage passing on every object that has an input property
Account_parseMessage_HasInput(self, message) ==
    Method(self,
        IF TypeOf(message) = "string"
        THEN Return(SignableMessageFromString(message.s))
        ELSE IF message.t = "Uint8Array" THEN Return(SignableMessage(message.b))
        ELSE IF "input" \in DOMAIN message THEN Return(message)
        ELSE Throw(InvalidMessageType))

\* parseMessage without its branch for what is a message already
Account_parseMessage_NoPassThrough(self, message) ==
    Method(self,
        IF TypeOf(message) = "string"
        THEN Return(SignableMessageFromString(message.s))
        ELSE IF message.t = "Uint8Array" THEN Return(SignableMessage(message.b))
        ELSE Throw(InvalidMessageType))

\* parseMessage(message)
Account_parseMessage(self, message) ==
    Method(self,
        IF TypeOf(message) = "string"
        THEN Return(SignableMessageFromString(message.s))
        ELSE IF message.t = "Uint8Array" THEN Return(SignableMessage(message.b))
        ELSE IF Truthy(Get(message, "input")) THEN Return(message)
        ELSE Throw(InvalidMessageType))

\* sign(message, options = { algorithm: Signer.ALGORITHMS.SECP256K1 })
Account_sign(self, message, optionsArg) ==
    LET options == IF optionsArg.t = "undefined"
                   THEN [t |-> "object", algorithm |-> Text("secp256k1")]
                   ELSE optionsArg
    IN  IF ~Truthy(self.signer) THEN Method(self, Throw(SignerNotInitialized))
        ELSE LET parsed == Account_parseMessage(self, message)
             IN  IF ~parsed.ok THEN parsed
                 ELSE Method(parsed.self,
                             Return(SignerSign(parsed.self.signer, parsed.value, options)))

\* verify handing the signature on as it was given
Account_verify_NoSignatureDecode(self, signatureArg, message, options) ==
    IF ~Truthy(self.signer) THEN Method(self, Throw(SignerNotInitialized))
    ELSE LET publicKey == AsBytes(getPublicKey(self.signer.privateKey))
             parsed == Account_parseMessage(self, message)
         IN  IF ~parsed.ok THEN parsed
             ELSE Method(parsed.self,
                         Return(Bool(SignableVerify(parsed.value, signatureArg,
                                                    publicKey, options))))

\* verify checking against the public key its caller hands it
Account_verify_CallerKey(self, signatureArg, message, options) ==
    IF ~Truthy(self.signer) THEN Method(self, Throw(SignerNotInitialized))
    ELSE LET signature == IF TypeOf(signatureArg) = "string"
                          THEN HexToBytes(signatureArg) ELSE signatureArg
             publicKey == IF TypeOf(options) = "string" THEN HexToBytes(options)
                          ELSE AsBytes(getPublicKey(self.signer.privateKey))
             parsed == Account_parseMessage(self, message)
         IN  IF ~parsed.ok THEN parsed
             ELSE Method(parsed.self,
                         Return(Bool(SignableVerify(parsed.value, signature,
                                                    publicKey, Undefined))))

\* verify(signature, message, options)
Account_verify(self, signatureArg, message, options) ==
    IF ~Truthy(self.signer) THEN Method(self, Throw(SignerNotInitialized))
    ELSE LET signature == IF TypeOf(signatureArg) = "string"
                          THEN HexToBytes(signatureArg) ELSE signatureArg
             publicKey == AsBytes(getPublicKey(self.signer.privateKey))
             parsed == Account_parseMessage(self, message)
         IN  IF ~parsed.ok THEN parsed
             ELSE Method(parsed.self,
                         Return(Bool(SignableVerify(parsed.value, signature,
                                                    publicKey, options))))

\* the typed key derived whatever kind is asked for
TypedKeyOf_IgnoresKind(key, params) ==
    LET moniker == Get(params, "moniker")
    IN  getPersonaTypedKey(
            getPersonaKeyring(key, IF moniker.t \in {"undefined", "null"}
                                   THEN Text("") ELSE moniker),
            Text("persona.owner"))

\* params?.moniker ?? '' and params?.kind ?? 'persona.owner'
TypedKeyOf(key, params) ==
    LET moniker == Get(params, "moniker")
        kind == Get(params, "kind")
    IN  getPersonaTypedKey(
            getPersonaKeyring(key, IF moniker.t \in {"undefined", "null"}
                                   THEN Text("") ELSE moniker),
            IF kind.t \in {"undefined", "null"} THEN Text("persona.owner") ELSE kind)

\* toPublicKey(params)
Account_toPublicKey(self, params) ==
    LET key == self.key
    IN  IF ~Truthy(key) THEN Method(self, Throw(KeyRequiredForPublicKey))
        ELSE IF TypeOf(key) = "string" THEN Method(self, Return(key))
        ELSE Method(self, Return(AsBytes(getPublicKey(getPrivateKey(TypedKeyOf(key, params))))))

\* toPrivateKey handing out the account's base key, as getSigner does
Account_toPrivateKey_BaseKey(self, params) ==
    LET key == self.key
    IN  IF key.t = "null" THEN Method(self, Throw(KeyRequiredForPrivateKey))
        ELSE Method(self, Return(AsBytes(getPrivateKey(key))))

\* toPrivateKey(params)
Account_toPrivateKey(self, params) ==
    LET key == self.key
    IN  IF key.t = "null" THEN Method(self, Throw(KeyRequiredForPrivateKey))
        ELSE Method(self, Return(AsBytes(getPrivateKey(TypedKeyOf(key, params)))))

\* getSigner telling a moniker from none by comparing it with null
Account_getSigner_NotNull(self, monikerArg, type, h) ==
    LET moniker == IF monikerArg.t = "undefined" THEN Null ELSE monikerArg
    IN  IF moniker.t # "null"
        THEN PMethod(self, h + 1,
                     Return(NewSigner(getPrivateKey(self.key), Undefined, h + 1)))
        ELSE PMethod(self, h, Return(self.signer))

\* getSigner caching the signer it constructs for a moniker
Account_getSigner_Rebinds(self, monikerArg, type, h) ==
    LET moniker == IF monikerArg.t = "undefined" THEN Null ELSE monikerArg
        made == NewSigner(getPrivateKey(self.key), Undefined, h + 1)
    IN  IF Truthy(moniker)
        THEN PMethod([self EXCEPT !.signer = made], h + 1, Return(made))
        ELSE PMethod(self, h, Return(self.signer))

\* getSigner(moniker = null, type = 'persona.spender'), h the count of the
\* signers getSigner calls constructed so far
Account_getSigner(self, monikerArg, type, h) ==
    LET moniker == IF monikerArg.t = "undefined" THEN Null ELSE monikerArg
    IN  IF Truthy(moniker)
        THEN PMethod(self, h + 1,
                     Return(NewSigner(getPrivateKey(self.key), Undefined, h + 1)))
        ELSE PMethod(self, h, Return(self.signer))

\* encrypt(message, options); this.getSigner() without a moniker constructs
\* no signer, whatever the count
Account_encrypt(self, message) ==
    LET got == Account_getSigner(self, Undefined, Undefined, 0)
    IN  IF ~Truthy(got.value) THEN Method(got.self, Throw(SignerRequired))
        ELSE LET parsed == Account_parseMessage(got.self, message)
             IN  IF ~parsed.ok THEN parsed
                 ELSE Method(parsed.self, Return(SignableEncrypt(parsed.value, got.value)))

\* decrypt handing back the bytes decrypted instead of their text
Account_decrypt_RawOutput(self, message) ==
    LET got == Account_getSigner(self, Undefined, Undefined, 0)
    IN  IF ~Truthy(got.value) THEN Method(got.self, Throw(SignerRequired))
        ELSE LET decrypted == SignableDecrypt(message, got.value)
             IN  IF ~decrypted.ok THEN Method(got.self, Throw(DecryptError))
                 ELSE Method(got.self, Return(Bytes(message.term.msg)))

\* decrypt(message, options = { output: 'utf8' })
Account_decrypt(self, message) ==
    LET got == Account_getSigner(self, Undefined, Undefined, 0)
    IN  IF ~Truthy(got.value) THEN Method(got.self, Throw(SignerRequired))
        ELSE LET decrypted == SignableDecrypt(message, got.value)
             IN  IF ~decrypted.ok THEN Method(got.self, Throw(DecryptError))
                 ELSE Method(got.self, Return(decrypted.text))

\* getAccount(accountIndex = 0)
Wallet_getAccount(self, accountIndexArg) ==
    LET accountIndex == IF accountIndexArg.t = "undefined" THEN 0
                        ELSE accountIndexArg.n
        chainKeyring == Get(self, "chainKeyring")
        accountKeyring == IF chainKeyring.t \in {"undefined", "null"} THEN Undefined
                          ELSE getAccountKeyring(chainKeyring, accountIndex)
    IN  IF ~Truthy(accountKeyring)
        THEN [self |-> self, ok |-> FALSE, err |-> WalletAccountKeyringRequired,
              value |-> Undefined]
        ELSE LET r == Account_constructor(accountKeyring)
             IN  [self |-> self, ok |-> r.ok, err |-> r.err, value |-> r.value]

(***************************************************************************)
(* Persona.  Persona.getSigner constructs a Signer at each call: heap      *)
(* counts the signers constructed so far and ref is the identity of the    *)
(* one a call constructs, so that two calls returning one object can be    *)
(* told from two calls returning equal objects.  A Persona method that     *)
(* goes through getSigner returns [self, heap, ok, value, err].            *)
(***************************************************************************)
\* getMoniker()
Persona_getMoniker(self) == Method(self, Return(self.moniker))

\* getAddressKeyring deriving the receiving slot whatever isChange is
Persona_getAddressKeyring_NoChange(self, index, isChangeArg) ==
    IF self.key.t = "null" THEN Method(self, Return(Null))
    ELSE Method(self, Return(getAddressKeyring(self.key, index.n, 0)))

\* getAddressKeyring(index, isChange = false)
Persona_getAddressKeyring(self, index, isChangeArg) ==
    LET isChange == IF isChangeArg.t = "undefined" THEN Bool(FALSE) ELSE isChangeArg
        change == IF Truthy(isChange) THEN 1 ELSE 0
    IN  IF self.key.t = "null" THEN Method(self, Return(Null))
        ELSE Method(self, Return(getAddressKeyring(self.key, index.n, change)))

\* getAddress(index, isChange = false)
Persona_getAddress(self, index, isChangeArg) ==
    LET isChange == IF isChangeArg.t = "undefined" THEN Bool(FALSE) ELSE isChangeArg
        change == IF Truthy(isChange) THEN 1 ELSE 0
    IN  IF self.key.t = "null" THEN Method(self, Return(Null))
        ELSE Method(self, Return(getAddress(getAddressKeyring(self.key, index.n, change),
                                            "sct")))

\* getSigner keeping the first signer it constructed and handing it out again
Persona_getSigner_Cached(self, h) ==
    IF ~Truthy(self.key) THEN PMethod(self, h, Throw(PersonaKeyringRequired))
    ELSE PMethod(self, IF h = 0 THEN 1 ELSE h,
                 Return(NewSigner(getPrivateKey(self.key), self.moniker, 1)))

\* getSigner()
Persona_getSigner(self, h) ==
    IF ~Truthy(self.key) THEN PMethod(self, h, Throw(PersonaKeyringRequired))
    ELSE PMethod(self, h + 1,
                 Return(NewSigner(getPrivateKey(self.key), self.moniker, h + 1)))

\* parseMessage(message)
Persona_parseMessage(self, message) ==
    Method(self,
        IF TypeOf(message) = "string"
        THEN Return(SignableMessageFromString(message.s))
        ELSE IF message.t = "Uint8Array" THEN Return(SignableMessage(message.b))
        ELSE IF Truthy(Get(message, "input")) THEN Return(message)
        ELSE Throw(InvalidMessageType))

\* sign(message, options)
Persona_sign(self, message, options, h) ==
    LET got == Persona_getSigner(self, h)
    IN  IF ~got.ok THEN got
        ELSE IF ~Truthy(got.value) THEN PMethod(got.self, got.heap, Throw(SignerRequired))
        ELSE LET parsed == Persona_parseMessage(got.self, message)
             IN  IF ~parsed.ok THEN PMethod(parsed.self, got.heap, parsed)
                 ELSE PMethod(parsed.self, got.heap,
                              Return(SignableSign(parsed.value, got.value, options)))

\* verify asking for the persona's keyring first, as sign does
Persona_verify_NeedsKeyring(self, signatureArg, message, publicKeyArg, options) ==
    IF ~Truthy(self.key) THEN Method(self, Throw(PersonaKeyringRequired))
    ELSE LET signature == IF TypeOf(signatureArg) = "string"
                          THEN HexToBytes(signatureArg) ELSE signatureArg
             publicKey == IF TypeOf(publicKeyArg) = "string"
                          THEN HexToBytes(publicKeyArg) ELSE publicKeyArg
             parsed == Persona_parseMessage(self, message)
         IN  IF ~parsed.ok THEN parsed
             ELSE Method(parsed.self,
                         Return(Bool(SignableVerify(parsed.value, signature,
                                                    publicKey, options))))

\* verify handing the public key on as it was given
Persona_verify_NoKeyDecode(self, signatureArg, message, publicKeyArg, options) ==
    LET signature == IF TypeOf(signatureArg) = "string"
                     THEN HexToBytes(signatureArg) ELSE signatureArg
        parsed == Persona_parseMessage(self, message)
    IN  IF ~parsed.ok THEN parsed
        ELSE Method(parsed.self,
                    Return(Bool(SignableVerify(parsed.value, signature,
                                               publicKeyArg, options))))

\* verify(signature, message, publicKey, options)
Persona_verify(self, signatureArg, message, publicKeyArg, options) ==
    LET signature == IF TypeOf(signatureArg) = "string"
                     THEN HexToBytes(signatureArg) ELSE signatureArg
        publicKey == IF TypeOf(publicKeyArg) = "string"
                     THEN HexToBytes(publicKeyArg) ELSE publicKeyArg
        parsed == Persona_parseMessage(self, message)
    IN  IF ~parsed.ok THEN parsed
        ELSE Method(parsed.self,
                    Return(Bool(SignableVerify(parsed.value, signature,
                                               publicKey, options))))

\* encrypt(message, options)
Persona_encrypt(self, message, h) ==
    LET got == Persona_getSigner(self, h)
    IN  IF ~got.ok THEN got
        ELSE IF ~Truthy(got.value) THEN PMethod(got.self, got.heap, Throw(SignerRequired))
        ELSE LET parsed == Persona_parseMessage(got.self, message)
             IN  IF ~parsed.ok THEN PMethod(parsed.self, got.heap, parsed)
                 ELSE PMethod(parsed.self, got.heap,
                              Return(SignableEncrypt(parsed.value, got.value)))

\* decrypt(message, options = { output: 'utf8' })
Persona_decrypt(self, message, h) ==
    LET got == Persona_getSigner(self, h)
    IN  IF ~got.ok THEN got
        ELSE IF ~Truthy(got.value) THEN PMethod(got.self, got.heap, Throw(SignerRequired))
        ELSE LET decrypted == SignableDecrypt(message, got.value)
             IN  IF ~decrypted.ok THEN PMethod(got.self, got.heap, Throw(DecryptError))
                 ELSE PMethod(got.self, got.heap, Return(decrypted.text))

(***************************************************************************)
(* The inputs a caller draws from.                                         *)
(***************************************************************************)
Alphabet == {SP, 97}
SeedBytes == {10, 160}

SeqsUpTo(S, n) == UNION {[1..k -> S] : k \in 0..n}
Seeds == SeqsUpTo(SeedBytes, MaxSeedLen) \ {<<>>}

\* what Mnemonic.generateMnemonic() may return: words separated by spaces
GeneratedMnemonics == {<<97, SP, 97>>, <<97, SP, 48>>}

\* strings that exercise the hex codec: "0a", "A0", "g"
HexCases == {<<48, 97>>, <<65, 48>>, <<103>>}

Phrases == SeqsUpTo(Alphabet, MaxLen) \cup GeneratedMnemonics \cup HexCases

SeedsOfPhrases == {MnemonicToSeed(p) : p \in Phrases}

StringInputs ==
    {Str(s) : s \in Phrases \cup {HexEncode(b) : b \in SeedsOfPhrases}}

SeedInputs == {Bytes(b) : b \in Seeds \cup SeedsOfPhrases}

CoinTypeOptions == {Undefined, Num(0), Num(118)}

ChainKeyrings ==
    {getChainKeyring(SeedKeyringFromSeed(b), c) : b \in Seeds, c \in {118, 8888}}

OtherInputs ==
    {Undefined, Null, Bool(TRUE), Bool(FALSE), Num(0), Num(1), EmptyObject}
    \cup {PhraseRecord(Str(p)) : p \in GeneratedMnemonics}
    \cup {HandleRecord(k) : k \in {Undefined, Null} \cup ChainKeyrings}

WalletInputs == StringInputs \cup SeedInputs \cup OtherInputs

IndexArgs == {Undefined} \cup {Num(i) : i \in 0..MaxIndex}
PrefixArgs == {Undefined, Text("sct"), Text("cosmos")}
Monikers == {Text(""), Text("alice")}

\* messages of the shapes parseMessage wraps or passes on: text (ASCII and
\* not), bytes (not the encoding of any text), a SignableMessage
SupportedMessages ==
    {Str(<<97>>), Str(<<233>>), Bytes(<<160>>), SignableMessage(<<97>>)}

\* values that are no message: a number, null, an object without input
UnsupportedMessages == {Num(1), Null, EmptyObject}

\* objects whose input property is there and falsy
FalsyInputObjects ==
    {[t |-> "object", input |-> Num(0)], [t |-> "object", input |-> Text("")]}

\* an object that is no SignableMessage and has a truthy input property
DuckMessages == {[t |-> "object", input |-> Num(1)]}

Messages == SupportedMessages \cup UnsupportedMessages \cup FalsyInputObjects
\* a text that reads as hex: "61"
HexTexts == {Str(<<54, 49>>)}

\* the empty text and no bytes at all
EmptyMessages == {Str(<<>>), Bytes(<<>>)}

ParseInputs ==
    Messages \cup DuckMessages \cup HexTexts \cup EmptyMessages \cup {Undefined}

SignOptions == {Undefined, [t |-> "object", algorithm |-> Text("secp256k1")]}

PersonaKinds ==
    {Text("persona.owner"), Text("persona.spender"), Text("persona.proposer"),
     Text("persona.voter")}

KeyParams ==
    {Undefined, Null}
    \cup {[t |-> "object", kind |-> k, moniker |-> Text("alice")] :
             k \in PersonaKinds \ {Text("persona.owner")}}
    \cup {[t |-> "object", kind |-> Text("persona.owner"), moniker |-> Text("")],
          [t |-> "object", moniker |-> Text("alice")],
          [t |-> "object", kind |-> Text("persona.spender"), moniker |-> Null]}

ChangeArgs == {Undefined, Bool(FALSE), Bool(TRUE)}

(***************************************************************************)
(* The state machine: a caller holding the wallet of its latest            *)
(* construction call, the account of its latest getAccount / new Account   *)
(* call and the persona of its latest getPersona / new Persona call.       *)
(* call and ret record the latest call and its outcome (the value returned *)
(* or the error raised, and the chain of calls made), origin the           *)
(* construction call the wallet held came from, accountFrom the index the  *)
(* account held was asked for, personaFrom the moniker the persona held    *)
(* was asked for.  observed[i] collects the addresses                      *)
(* getAccount(i).toAddress() returned for the wallet held, derived.keys[p] *)
(* the keys toPublicKey(p) returned for the account held (while            *)
(* derived.recording), heap counts the signers the getSigner calls         *)
(* constructed.                                                            *)
(***************************************************************************)
NoneObserved == [i \in 0..MaxIndex |-> {}]
NoneDerived == [p \in KeyParams |-> {}]

Init ==
    /\ wallet = Undefined
    /\ origin = [op |-> "init", input |-> Undefined, opt |-> Undefined]
    /\ account = Undefined
    /\ accountFrom = Undefined
    /\ observed = NoneObserved
    /\ call = [op |-> "init", input |-> Undefined, opt |-> Undefined]
    /\ ret = [ok |-> TRUE, err |-> "", trace |-> <<>>, value |-> Undefined]
    /\ persona = Undefined
    /\ personaFrom = Undefined
    /\ derived = [recording |-> FALSE, keys |-> NoneDerived]
    /\ heap = 0

\* A construction call ended: the caller holds its wallet, or none if it threw.
Constructed(op, input, opt, r) ==
    /\ call' = [op |-> op, input |-> input, opt |-> opt]
    /\ ret' = [ok |-> r.ok, err |-> r.err, trace |-> r.trace, value |-> r.value]
    /\ wallet' = r.value
    /\ origin' = [op |-> op, input |-> input, opt |-> opt]
    /\ account' = Undefined
    /\ accountFrom' = Undefined
    /\ observed' = NoneObserved
    /\ UNCHANGED <<persona, personaFrom, derived, heap>>

\* The state a construction call leaves is a function of the call alone (the
\* entry points are static and read nothing the caller holds), so the calls
\* are taken from the initial state: a later one reaches no other state.
NoCallYet == call.op = "init"

NewWallet ==
    /\ NoCallYet
    /\ \E input \in WalletInputs, opt \in CoinTypeOptions :
         Constructed("new", input, opt, Wallet_constructor(input, opt))

Create ==
    /\ NoCallYet
    /\ \E input \in WalletInputs, opt \in CoinTypeOptions, g \in GeneratedMnemonics :
         Constructed("create", input, opt, Wallet_create(input, opt, g))

FromArbitraryInput ==
    /\ NoCallYet
    /\ \E input \in WalletInputs, opt \in CoinTypeOptions :
         Constructed("fromArbitraryInput", input, opt,
                     Wallet_fromArbitraryInput(input, opt))

FromMnemonic ==
    /\ NoCallYet
    /\ \E input \in StringInputs, opt \in CoinTypeOptions :
         Constructed("fromMnemonic", input, opt, Wallet_fromMnemonic(input, opt))

FromSeed ==
    /\ NoCallYet
    /\ \E input \in StringInputs \cup SeedInputs, opt \in CoinTypeOptions :
         Constructed("fromSeed", input, opt, Wallet_fromSeed(input, opt))

\* wallet.getAccount(i)
GetAccount ==
    /\ wallet # Undefined
    /\ \E i \in IndexArgs :
         LET r == Wallet_getAccount(wallet, i)
         IN  /\ call' = [op |-> "getAccount", input |-> i, opt |-> Undefined]
             /\ ret' = [ok |-> r.ok, err |-> r.err, trace |-> <<>>, value |-> r.value]
             /\ wallet' = r.self
             /\ account' = IF r.ok THEN r.value ELSE account
             /\ accountFrom' = IF r.ok
                               THEN (IF i = Undefined THEN Num(0) ELSE i)
                               ELSE accountFrom
             /\ derived' = IF r.ok THEN [derived EXCEPT !.keys = NoneDerived]
                           ELSE derived
             /\ UNCHANGED <<origin, observed, persona, personaFrom, heap>>

\* getAccount(i) called on a Wallet object whose chainKeyring field is null
\* or was never assigned (an object of the class no constructor call returned)
GetAccountNoKeyring ==
    /\ ~NoCallYet
    /\ \E k \in {Undefined, Null}, i \in IndexArgs :
         LET r == Wallet_getAccount([t |-> "Wallet", chainKeyring |-> k], i)
         IN  /\ call' = [op |-> "bare.getAccount", input |-> i, opt |-> k]
             /\ ret' = [ok |-> r.ok, err |-> r.err, trace |-> <<>>, value |-> r.value]
             /\ UNCHANGED <<wallet, origin, account, accountFrom, observed,
                            persona, personaFrom, derived, heap>>

\* new Account(k), k absent, null or an account keyring of the wallet held
NewAccount ==
    \E k \in {Undefined, Null} \cup
             (IF wallet = Undefined THEN {}
              ELSE {getAccountKeyring(wallet.chainKeyring, i) : i \in 0..MaxIndex}) :
        LET r == Account_constructor(k)
        IN  /\ call' = [op |-> "newAccount", input |-> k, opt |-> Undefined]
            /\ ret' = [ok |-> r.ok, err |-> r.err, trace |-> <<>>, value |-> r.value]
            /\ account' = IF r.ok THEN r.value ELSE account
            /\ accountFrom' = IF r.ok THEN Undefined ELSE accountFrom
            /\ derived' = IF r.ok THEN [derived EXCEPT !.keys = NoneDerived]
                          ELSE derived
            /\ UNCHANGED <<wallet, origin, observed, persona, personaFrom, heap>>

\* account.toAddress(prefix)
ToAddress ==
    /\ account # Undefined
    /\ \E prefix \in PrefixArgs :
         LET r == Account_toAddress(account, prefix)
         IN  /\ call' = [op |-> "toAddress", input |-> prefix, opt |-> Undefined]
             /\ ret' = [ok |-> r.ok, err |-> r.err, trace |-> <<>>, value |-> r.value]
             /\ account' = r.self
             /\ observed' = IF accountFrom # Undefined /\ prefix = Undefined
                            THEN [observed EXCEPT ![accountFrom.n] = @ \cup {r.value}]
                            ELSE observed
             /\ UNCHANGED <<wallet, origin, accountFrom, persona, personaFrom,
                            derived, heap>>

\* a call of a method of the account held, leaving the account as it hands it back
Called(op, input, opt, r) ==
    /\ call' = [op |-> op, input |-> input, opt |-> opt]
    /\ ret' = [ok |-> r.ok, err |-> r.err, trace |-> <<>>, value |-> r.value]
    /\ account' = r.self
    /\ UNCHANGED <<wallet, origin, accountFrom, observed, persona, personaFrom,
                   derived, heap>>

\* the arguments of a call that takes more than two: those after the first
Args2(x, y) == [t |-> "arguments", first |-> x, second |-> y]

\* the next account of the same wallet (another key)
Stranger(a) ==
    Account_constructor(
        getAccountKeyring(a.key.chain, (a.key.account + 1) % (MaxIndex + 1))).value

\* account.getPersona(moniker)
GetPersona ==
    /\ account # Undefined
    /\ \E moniker \in Monikers :
         LET r == Account_getPersona(account, moniker)
         IN  /\ call' = [op |-> "getPersona", input |-> moniker, opt |-> Undefined]
             /\ ret' = [ok |-> r.ok, err |-> r.err, trace |-> <<>>, value |-> r.value]
             /\ account' = r.self
             /\ persona' = r.value
             /\ personaFrom' = moniker
             /\ UNCHANGED <<wallet, origin, accountFrom, observed, derived, heap>>

\* account.parseMessage(message)
ParseMessage ==
    /\ account # Undefined
    /\ \E m \in ParseInputs :
         Called("parseMessage", m, Undefined, Account_parseMessage(account, m))

\* account.parseMessage(x), x what the account's parseMessage just returned
ParseOwnOutput ==
    /\ account # Undefined
    /\ call.op = "parseMessage"
    /\ ret.ok
    /\ Called("parseMessage", ret.value, Undefined,
              Account_parseMessage(account, ret.value))

\* the calls of sign: every message without options, the supported ones
\* with the algorithm named as well
SignCases ==
    {<<m, Undefined>> : m \in Messages}
    \cup {<<m, options>> : m \in SupportedMessages, options \in SignOptions}

\* account.sign(message, options)
Sign ==
    /\ account # Undefined
    /\ \E c \in SignCases :
         Called("sign", c[1], c[2], Account_sign(account, c[1], c[2]))

\* the signature a.sign(m) returns
SignatureOf(a, m) == Account_sign(a, m, Undefined).value.items[1]

\* the calls of verify, <<message, signature>>: each supported message with
\* this account's signature of it, every message with this account's
\* signature of "a", and "a" with the signature of the wallet's next account
VerifyCases(a) ==
    {<<m, SignatureOf(a, m)>> : m \in SupportedMessages}
    \cup {<<m, SignatureOf(a, Str(<<97>>))>> : m \in Messages}
    \cup {<<Str(<<97>>), SignatureOf(Stranger(a), Str(<<97>>))>>}

\* account.verify(signature, message, third), the third argument absent or, as
\* callers of the three-argument form pass it, the public key sign returned
Verify ==
    /\ account # Undefined
    /\ \E c \in VerifyCases(account),
          third \in {Undefined, Account_sign(account, Str(<<97>>), Undefined).value.items[2]} :
         Called("verify", c[1], Args2(c[2], third),
                Account_verify(account, c[2], c[1], third))

\* <<[signature, publicKey] of "a" as sign returns it to the account b,
\*   [signature, publicKey] of "a" as sign returns it to the persona m of a>>
SignedBy(a, b, m) ==
    <<Account_sign(b, Str(<<97>>), Undefined).value.items,
      Persona_sign(Persona_constructor(getPersonaKeyring(a.key, m)).value,
                   Str(<<97>>), Undefined, 0).value.items>>

\* account.verify(signature, "a", publicKey), signature and public key each
\* from the account, the next account of the wallet or a persona of the account
VerifyWithKey ==
    /\ account # Undefined
    /\ \E b \in {account, Stranger(account)}, m \in Monikers, i \in 1..2, j \in 1..2 :
         LET signed == SignedBy(account, b, m)
         IN  Called("verify", Str(<<97>>), Args2(signed[i][1], signed[j][2]),
                    Account_verify(account, signed[i][1], Str(<<97>>), signed[j][2]))

\* account.toPublicKey(params)
ToPublicKey ==
    /\ account # Undefined
    /\ \E params \in KeyParams :
         LET r == Account_toPublicKey(account, params)
         IN  /\ call' = [op |-> "toPublicKey", input |-> params, opt |-> Undefined]
             /\ ret' = [ok |-> r.ok, err |-> r.err, trace |-> <<>>, value |-> r.value]
             /\ account' = r.self
             /\ derived' = IF derived.recording /\ r.ok
                           THEN [derived EXCEPT !.keys[params] = @ \cup {r.value}]
                           ELSE derived
             /\ UNCHANGED <<wallet, origin, accountFrom, observed, persona,
                            personaFrom, heap>>

\* account.toPrivateKey(params)
ToPrivateKey ==
    /\ account # Undefined
    /\ \E params \in KeyParams :
         Called("toPrivateKey", params, Undefined, Account_toPrivateKey(account, params))

\* account.getSigner(moniker, type)
GetSigner ==
    /\ account # Undefined
    /\ heap < MaxSigners
    /\ \E moniker \in {Undefined} \cup Monikers, type \in {Undefined} \cup PersonaKinds :
         LET r == Account_getSigner(account, moniker, type, heap)
         IN  /\ call' = [op |-> "getSigner", input |-> moniker, opt |-> type]
             /\ ret' = [ok |-> r.ok, err |-> r.err, trace |-> <<>>, value |-> r.value]
             /\ account' = r.self
             /\ heap' = r.heap
             /\ UNCHANGED <<wallet, origin, accountFrom, observed, persona,
                            personaFrom, derived>>

\* account.encrypt(message)
Encrypt ==
    /\ account # Undefined
    /\ \E m \in Messages : Called("encrypt", m, Undefined, Account_encrypt(account, m))

\* what is offered to account.decrypt: what this account encrypted, what the
\* next account of the wallet encrypted, and a value that is no ciphertext
CiphertextsFor(a) ==
    {Account_encrypt(a, m).value : m \in SupportedMessages}
    \cup {Account_encrypt(Stranger(a), Str(<<97>>)).value, Num(1), Null, EmptyObject}

\* account.decrypt(message)
Decrypt ==
    /\ account # Undefined
    /\ \E c \in CiphertextsFor(account) :
         Called("decrypt", c, Undefined, Account_decrypt(account, c))

\* a call of a method of the persona held that constructs no signer
PCalled(op, input, opt, r) ==
    /\ call' = [op |-> op, input |-> input, opt |-> opt]
    /\ ret' = [ok |-> r.ok, err |-> r.err, trace |-> <<>>, value |-> r.value]
    /\ persona' = r.self
    /\ UNCHANGED <<wallet, origin, account, accountFrom, observed, personaFrom,
                   derived, heap>>

\* a call of a method of the persona held that goes through getSigner
PSigned(op, input, opt, r) ==
    /\ call' = [op |-> op, input |-> input, opt |-> opt]
    /\ ret' = [ok |-> r.ok, err |-> r.err, trace |-> <<>>, value |-> r.value]
    /\ persona' = r.self
    /\ heap' = r.heap
    /\ UNCHANGED <<wallet, origin, account, accountFrom, observed, personaFrom,
                   derived>>

\* new Persona() and new Persona(null)
NewPersona ==
    \E k \in {Undefined, Null} :
        LET r == Persona_constructor(k)
        IN  /\ call' = [op |-> "newPersona", input |-> k, opt |-> Undefined]
            /\ ret' = [ok |-> r.ok, err |-> r.err, trace |-> <<>>, value |-> r.value]
            /\ persona' = r.value
            /\ personaFrom' = Null
            /\ UNCHANGED <<wallet, origin, account, accountFrom, observed,
                           derived, heap>>

\* persona.getMoniker()
PersonaGetMoniker ==
    /\ persona # Undefined
    /\ PCalled("persona.getMoniker", Undefined, Undefined, Persona_getMoniker(persona))

\* persona.getAddressKeyring(index, isChange)
PersonaGetAddressKeyring ==
    /\ persona # Undefined
    /\ \E i \in 0..MaxIndex, isChange \in ChangeArgs :
         PCalled("persona.getAddressKeyring", Num(i), isChange,
                 Persona_getAddressKeyring(persona, Num(i), isChange))

\* persona.getAddress(index, isChange)
PersonaGetAddress ==
    /\ persona # Undefined
    /\ \E i \in 0..MaxIndex, isChange \in ChangeArgs :
         PCalled("persona.getAddress", Num(i), isChange,
                 Persona_getAddress(persona, Num(i), isChange))

\* persona.getSigner()
PersonaGetSigner ==
    /\ persona # Undefined
    /\ heap < MaxSigners
    /\ PSigned("persona.getSigner", Undefined, Undefined,
               Persona_getSigner(persona, heap))

\* persona.parseMessage(message)
PersonaParseMessage ==
    /\ persona # Undefined
    /\ \E m \in ParseInputs :
         PCalled("persona.parseMessage", m, Undefined, Persona_parseMessage(persona, m))

\* persona.parseMessage(x), x what the persona's parseMessage just returned
PersonaParseOwnOutput ==
    /\ persona # Undefined
    /\ call.op = "persona.parseMessage"
    /\ ret.ok
    /\ PCalled("persona.parseMessage", ret.value, Undefined,
               Persona_parseMessage(persona, ret.value))

\* persona.sign(message, options)
PersonaSign ==
    /\ persona # Undefined
    /\ heap < MaxSigners
    /\ \E c \in SignCases :
         PSigned("persona.sign", c[1], c[2], Persona_sign(persona, c[1], c[2], heap))

\* the personas of the account held
AccountPersonas ==
    {Persona_constructor(getPersonaKeyring(account.key, m)).value : m \in Monikers}

\* the persona held, when it has a keyring
Keyed(p) == IF p.key.t = "null" THEN {} ELSE {p}

\* [signature, publicKey] as q.sign(m) returns it
PersonaSigned(q, m) == Persona_sign(q, m, Undefined, 0).value.items

\* the calls of persona.verify, <<message, signature>>: each supported
\* message with the signature the persona held makes of it, and "a" and the
\* values that are no message with the signature a persona of the account
\* makes of "a"
PersonaVerifyCases(p) ==
    {<<m, PersonaSigned(q, m)[1]>> : q \in Keyed(p), m \in SupportedMessages}
    \cup {<<m, PersonaSigned(q, Str(<<97>>))[1]>> :
             q \in AccountPersonas, m \in {Str(<<97>>)} \cup UnsupportedMessages}

\* the public keys offered with them: those of the personas of the account
PersonaPublicKeys ==
    {PersonaSigned(q, Str(<<97>>))[2] : q \in AccountPersonas}

\* persona.verify(signature, message, publicKey)
PersonaVerify ==
    /\ persona # Undefined
    /\ account # Undefined
    /\ \E c \in PersonaVerifyCases(persona),
          publicKey \in PersonaPublicKeys \cup {Undefined} :
         PCalled("persona.verify", c[1], Args2(c[2], publicKey),
                 Persona_verify(persona, c[2], c[1], publicKey, Undefined))

\* persona.encrypt(message)
PersonaEncrypt ==
    /\ persona # Undefined
    /\ heap < MaxSigners
    /\ \E m \in Messages :
         PSigned("persona.encrypt", m, Undefined, Persona_encrypt(persona, m, heap))

\* what is offered to persona.decrypt: what the persona held encrypted, what
\* a persona of the account encrypted, and values that are no ciphertext
PersonaCiphertextsFor(p) ==
    {Persona_encrypt(q, m, 0).value : q \in Keyed(p), m \in SupportedMessages}
    \cup {Persona_encrypt(q, Str(<<97>>), 0).value : q \in AccountPersonas}
    \cup {Num(1), Null, EmptyObject}

\* persona.decrypt(message)
PersonaDecrypt ==
    /\ persona # Undefined
    /\ account # Undefined
    /\ heap < MaxSigners
    /\ \E c \in PersonaCiphertextsFor(persona) :
         PSigned("persona.decrypt", c, Undefined, Persona_decrypt(persona, c, heap))

(***************************************************************************)
(* Spec: the construction entry points, and getAccount / toAddress on the  *)
(* wallet they return.                                                     *)
(***************************************************************************)
Next ==
    \/ NewWallet
    \/ Create
    \/ FromArbitraryInput
    \/ FromMnemonic
    \/ FromSeed
    \/ GetAccount
    \/ GetAccountNoKeyring
    \/ ToAddress

Spec == Init /\ [][Next]_vars

\* the state as Wallet.create(phrase, options) returns
Created(p, opt) ==
    LET r == Wallet_create(Str(p), opt, p)
    IN  /\ wallet = r.value
        /\ origin = [op |-> "create", input |-> Str(p), opt |-> opt]
        /\ account = Undefined
        /\ accountFrom = Undefined
        /\ observed = NoneObserved
        /\ call = [op |-> "create", input |-> Str(p), opt |-> opt]
        /\ ret = [ok |-> r.ok, err |-> r.err, trace |-> r.trace, value |-> r.value]
        /\ persona = Undefined
        /\ personaFrom = Undefined
        /\ heap = 0

(***************************************************************************)
(* SpecAccount: the calls on a wallet built from a mnemonic phrase and on  *)
(* the accounts it hands out.  It starts as                                *)
(* Wallet.create(phrase, {coinType: 118}) returns.                         *)
(***************************************************************************)
InitAccount ==
    \E p \in GeneratedMnemonics :
        /\ Created(p, Num(118))
        /\ derived = [recording |-> FALSE, keys |-> NoneDerived]

NextAccount ==
    \/ GetAccount
    \/ NewAccount
    \/ ToAddress
    \/ GetPersona
    \/ Sign
    \/ Verify
    \/ ToPublicKey
    \/ ToPrivateKey
    \/ Encrypt
    \/ Decrypt

SpecAccount == InitAccount /\ [][NextAccount]_vars

(***************************************************************************)
(* SpecKeys: the key accessors of the accounts of a wallet built from a    *)
(* mnemonic phrase, the keys toPublicKey returns recorded.                 *)
(***************************************************************************)
InitKeys ==
    \E p \in GeneratedMnemonics :
        /\ Created(p, Undefined)
        /\ derived = [recording |-> TRUE, keys |-> NoneDerived]

NextKeys ==
    \/ GetAccount
    \/ ToPublicKey
    \/ ToPrivateKey

SpecKeys == InitKeys /\ [][NextKeys]_vars

(***************************************************************************)
(* SpecPersona: the calls on the personas of an account, and the message   *)
(* methods of the account itself.  It starts as                            *)
(* Wallet.create(phrase).getAccount(i) returns.                            *)
(***************************************************************************)
InitPersona ==
    \E p \in GeneratedMnemonics, i \in 0..MaxIndex :
        LET w == Wallet_create(Str(p), Undefined, p)
            r == Wallet_getAccount(w.value, Num(i))
        IN  /\ wallet = w.value
            /\ origin = [op |-> "create", input |-> Str(p), opt |-> Undefined]
            /\ account = r.value
            /\ accountFrom = Num(i)
            /\ observed = NoneObserved
            /\ call = [op |-> "getAccount", input |-> Num(i), opt |-> Undefined]
            /\ ret = [ok |-> r.ok, err |-> r.err, trace |-> <<>>, value |-> r.value]
            /\ persona = Undefined
            /\ personaFrom = Undefined
            /\ derived = [recording |-> FALSE, keys |-> NoneDerived]
            /\ heap = 0

NextPersona ==
    \/ GetPersona
    \/ NewPersona
    \/ PersonaGetMoniker
    \/ PersonaGetAddressKeyring
    \/ PersonaGetAddress
    \/ PersonaGetSigner
    \/ PersonaParseMessage
    \/ PersonaParseOwnOutput
    \/ PersonaSign
    \/ PersonaVerify
    \/ PersonaEncrypt
    \/ PersonaDecrypt
    \/ ParseMessage
    \/ ParseOwnOutput
    \/ Sign
    \/ Verify
    \/ Encrypt
    \/ Decrypt

SpecPersona == InitPersona /\ [][NextPersona]_vars

(***************************************************************************)
(* SpecSigner: every method of an account, getSigner among them, called in *)
(* any order on the account Wallet.create(phrase).getAccount(i) returns.   *)
(***************************************************************************)
NextSigner ==
    \/ ToAddress
    \/ GetPersona
    \/ Sign
    \/ Verify
    \/ VerifyWithKey
    \/ ToPublicKey
    \/ ToPrivateKey
    \/ GetSigner
    \/ Encrypt
    \/ Decrypt

SpecSigner == InitPersona /\ [][NextSigner]_vars

(***************************************************************************)
(* Vocabulary of the properties.                                           *)
(***************************************************************************)
HasSpace(s) == \E i \in 1..Len(s) : s[i] = SP

\* the coin type a caller asked for: the one it supplied, 8888 when none
SuppliedCoinType(opt) == IF opt = Undefined THEN 8888 ELSE opt.n

IsPhraseString(v) == v.t = "string" /\ HasSpace(v.s)

\* the latest call was wallet.getAccount(0).toAddress(), returning ret.value
Account0AddressReturned ==
    /\ call.op = "toAddress"
    /\ call.input = Undefined
    /\ accountFrom = Num(0)

\* Wallet.fromMnemonic(p, {coinType}).getAccount(0).toAddress()
MnemonicAddress(p, opt) ==
    LET w == Wallet_fromMnemonic(Str(p), opt).value
        a == Wallet_getAccount(w, Num(0)).value
    IN  Account_toAddress(a, Undefined).value

(***************************************************************************)
(* C1.  new Wallet(input), Wallet.create(input) and                        *)
(* Wallet.fromArbitraryInput(input) raise the invalid-input error and      *)
(* return no wallet for every input that is a number (0 included), a       *)
(* boolean, or an object with neither a phrase nor a chain keyring.        *)
(* Wallet.create(0) and Wallet.create(false) return a wallet.              *)
(***************************************************************************)
C1_MalformedInputRaises ==
    (/\ call.op \in {"new", "create", "fromArbitraryInput"}
     /\ \/ call.input.t \in {"number", "boolean"}
        \/ call.input = EmptyObject)
    => (~ret.ok /\ ret.err = InvalidInputError /\ wallet = Undefined)

(***************************************************************************)
(* C2.  A seed given as bytes is accepted by new Wallet, Wallet.create and *)
(* Wallet.fromArbitraryInput, which return the wallet Wallet.fromSeed      *)
(* returns for the same bytes and coinType.  The code raises instead.      *)
(***************************************************************************)
C2_BytesSeedAccepted ==
    (/\ call.op \in {"new", "create", "fromArbitraryInput"}
     /\ call.input.t = "Uint8Array")
    => (ret.ok /\ wallet = Wallet_fromSeed(call.input, call.opt).value)

(***************************************************************************)
(* C3.  new Wallet({phrase: p}) and Wallet.create({phrase: p}) return the  *)
(* wallet built from the mnemonic string p.  The code raises instead.      *)
(***************************************************************************)
C3_PhraseRecordAccepted ==
    (/\ call.op \in {"new", "create"}
     /\ call.input.t = "object"
     /\ "phrase" \in DOMAIN call.input)
    => (ret.ok /\ wallet = Wallet_fromMnemonic(call.input.phrase, call.opt).value)

(***************************************************************************)
(* C4.  For a string s, Wallet.fromArbitraryInput(s) calls                 *)
(* Wallet.fromMnemonic(s) exactly when s contains a space and              *)
(* Wallet.fromSeed(s) otherwise (s then decoded as hex), handing the       *)
(* caller's coinType on unchanged, and ends as the chosen path ends.       *)
(***************************************************************************)
C4_StringDispatch ==
    (call.op = "fromArbitraryInput" /\ call.input.t = "string")
    => /\ Len(ret.trace) >= 2
       /\ ret.trace[2].fn = (IF HasSpace(call.input.s) THEN "fromMnemonic"
                             ELSE "fromSeed")
       /\ ret.trace[2].arg = call.input
       /\ ret.trace[2].coinType = SuppliedCoinType(call.opt)
       /\ (~HasSpace(call.input.s) =>
             /\ ret.ok = HexDecode(call.input.s).ok
             /\ ret.ok => wallet.chainKeyring.seed = HexDecode(call.input.s).bytes)
       /\ (HasSpace(call.input.s) =>
             /\ ret.ok
             /\ wallet.chainKeyring.seed = MnemonicToSeed(call.input.s))
       /\ (ret.ok =>
             wallet.chainKeyring.options.coinType = SuppliedCoinType(call.opt))

C4_Witness ==
    /\ call.op = "fromArbitraryInput"
    /\ call.input = Str(<<97, SP>>)
    /\ call.opt = Num(118)
    /\ ret.ok
    /\ ret.trace[2].fn = "fromMnemonic"

(***************************************************************************)
(* C5.  For every phrase p and coinType c, the wallet of                   *)
(* Wallet.fromSeed(seedOf(p), {coinType: c}), the seed given as bytes or   *)
(* as its hex string, is built without error and its                       *)
(* getAccount(0).toAddress() is that of Wallet.fromMnemonic(p, c).         *)
(***************************************************************************)
C5_SeedAndMnemonicConverge ==
    \A p \in Phrases :
        (/\ origin.op = "fromSeed"
         /\ \/ origin.input = Bytes(MnemonicToSeed(p))
            \/ origin.input = Str(HexEncode(MnemonicToSeed(p))))
        => /\ wallet # Undefined
           /\ Account0AddressReturned => ret.value = MnemonicAddress(p, origin.opt)

C5_Witness ==
    /\ origin.op = "fromSeed"
    /\ origin.input = Str(HexEncode(MnemonicToSeed(<<97, SP, 97>>)))
    /\ origin.opt = Num(118)
    /\ Account0AddressReturned
    /\ ret.value.t = "Address"

(***************************************************************************)
(* C6.  For every string p with a space, Wallet.create(p) and              *)
(* new Wallet(p) return a wallet whose getAccount(0).toAddress() is that   *)
(* of Wallet.fromMnemonic(p) with the same coinType.                       *)
(***************************************************************************)
C6_CreateRestoresFromMnemonic ==
    (origin.op \in {"new", "create"} /\ IsPhraseString(origin.input))
    => /\ wallet # Undefined
       /\ Account0AddressReturned => ret.value = MnemonicAddress(origin.input.s, origin.opt)

C6_Witness ==
    /\ origin.op = "create"
    /\ origin.input = Str(<<97, SP, 48>>)
    /\ origin.opt = Num(118)
    /\ Account0AddressReturned
    /\ ret.value.t = "Address"

(***************************************************************************)
(* C7.  As stated: whatever the entry point and input, the chain keyring   *)
(* the wallet holds was derived with the coinType the caller supplied,     *)
(* 8888 when it supplied none.                                             *)
(***************************************************************************)
C7_OriginalCoinTypeOnEveryPath ==
    wallet # Undefined
    => wallet.chainKeyring.options.coinType = SuppliedCoinType(origin.opt)

\* the construction input was an already-built chain-keyring handle
FromHandle == Truthy(Get(origin.input, "chainKeyring"))

(***************************************************************************)
(* C7, amended.  For every entry point given a phrase, a seed or (create)  *)
(* no input, the chain keyring the wallet holds was derived with the       *)
(* coinType the caller supplied, 8888 when it supplied none; new Wallet    *)
(* given a chain-keyring handle holds that keyring as it is, whatever      *)
(* coinType was supplied.                                                  *)
(***************************************************************************)
C7_CoinTypeOfDerivedKeyring ==
    wallet # Undefined
    => IF FromHandle
       THEN origin.op = "new" /\ wallet.chainKeyring = origin.input.chainKeyring
       ELSE wallet.chainKeyring.options =
                [purpose |-> 44, coinType |-> SuppliedCoinType(origin.opt)]

C7_Witness ==
    /\ wallet # Undefined
    /\ origin.op = "create"
    /\ origin.input = Undefined
    /\ origin.opt = Num(0)
    /\ wallet.chainKeyring.options.coinType = 0

(***************************************************************************)
(* C8.  A wallet created from a mnemonic phrase records the coinType it    *)
(* was created with: wallet.coinType is the coinType supplied, 8888 when   *)
(* none, after construction and after every later call.  The constructor   *)
(* never assigns the field.                                                *)
(***************************************************************************)
C8_WalletRecordsCoinType ==
    (wallet # Undefined /\ origin.op = "create" /\ IsPhraseString(origin.input))
    => Get(wallet, "coinType") = Num(SuppliedCoinType(origin.opt))

C10_AccountHasKeyringAndSigner ==
    /\ call.op = "newAccount" =>
         /\ ret.ok = (call.input.t = "AccountKeyring")
         /\ ~ret.ok => ret.err = AccountKeyringRequired
         /\ ret.ok => account.key = call.input
    /\ account # Undefined =>
         /\ account.key.t = "AccountKeyring"
         /\ account.signer.t = "Signer"
         /\ account.signer.privateKey = [t |-> "PrivateKey", of |-> account.key]

C10_Witness ==
    /\ call.op = "newAccount"
    /\ ret.ok
    /\ account.key = call.input
    /\ account.signer.t = "Signer"

\* a message of a shape parseMessage supports: text, bytes, a SignableMessage
IsSupportedMessage(m) == m.t \in {"string", "Uint8Array", "SignableMessage"}

(***************************************************************************)
(* C11.  For the account a held and every message m of a supported shape,  *)
(* a.sign(m) returns a signature and the account's public key, and         *)
(* a.verify(a.sign(m)[0], m) is true, with no third argument and with      *)
(* a.sign(m)[1] as third argument.                                         *)
(***************************************************************************)
C11_AccountSignVerifyRoundTrip ==
    /\ (call.op = "sign" /\ IsSupportedMessage(call.input)) =>
         /\ ret.ok
         /\ ret.value.items[2] = AsHex(getPublicKey(getPrivateKey(account.key)))
    /\ (/\ call.op = "verify"
        /\ IsSupportedMessage(call.input)
        /\ call.opt.first = SignatureOf(account, call.input))
       => (ret.ok /\ ret.value = Bool(TRUE))

C11_Witness ==
    /\ call.op = "verify"
    /\ call.input = Bytes(<<160>>)
    /\ call.opt.first = SignatureOf(account, call.input)
    /\ call.opt.second = AsHex(getPublicKey(getPrivateKey(account.key)))
    /\ ret.value = Bool(TRUE)

(***************************************************************************)
(* C12.  For the persona p held, when it has a keyring, and every message  *)
(* m of a supported shape, p.sign(m) returns [signature, pubKey] with      *)
(* pubKey the public half of the persona's key, and                        *)
(* p.verify(signature, m, pubKey) is true.                                 *)
(***************************************************************************)
C12_PersonaSignVerifyRoundTrip ==
    /\ (/\ call.op = "persona.sign"
        /\ persona.key.t # "null"
        /\ IsSupportedMessage(call.input)) =>
         /\ ret.ok
         /\ ret.value.items[2] = AsHex(getPublicKey(getPrivateKey(persona.key)))
    /\ (/\ call.op = "persona.verify"
        /\ persona.key.t # "null"
        /\ IsSupportedMessage(call.input)
        /\ call.opt.first = PersonaSigned(persona, call.input)[1]
        /\ call.opt.second = PersonaSigned(persona, call.input)[2])
       => (ret.ok /\ ret.value = Bool(TRUE))

C12_Witness ==
    /\ call.op = "persona.verify"
    /\ personaFrom = Text("alice")
    /\ call.input = SignableMessage(<<97>>)
    /\ call.opt.first = PersonaSigned(persona, call.input)[1]
    /\ call.opt.second = PersonaSigned(persona, call.input)[2]
    /\ ret.value = Bool(TRUE)

\* the account held decrypting what it encrypted of m
AccountDecryptsOwn(m) ==
    /\ call.op = "decrypt"
    /\ call.input = Account_encrypt(account, m).value

\* the persona held, one with a keyring, decrypting what it encrypted of m
PersonaDecryptsOwn(m) ==
    /\ call.op = "persona.decrypt"
    /\ persona.key.t # "null"
    /\ call.input = Persona_encrypt(persona, m, 0).value

(***************************************************************************)
(* C13.  As stated: for every message m of a supported shape,              *)
(* x.decrypt(x.encrypt(m)) equals m, for the account and the persona held. *)
(***************************************************************************)
C13_DecryptReturnsTheMessage ==
    \A m \in SupportedMessages :
        (AccountDecryptsOwn(m) \/ PersonaDecryptsOwn(m))
        => (ret.ok /\ ret.value = m)

\* the text decrypt hands back for a message: the text itself, the UTF-8
\* reading of the bytes given or wrapped
TextOf(m) ==
    IF m.t = "string" THEN m.s
    ELSE IF m.t = "Uint8Array" THEN Utf8Decode(m.b)
    ELSE Utf8Decode(m.input.b)

(***************************************************************************)
(* C13, amended.  x.decrypt(x.encrypt(m)), called with default options on  *)
(* an account or on a persona with a keyring, returns a text string: m     *)
(* itself when m is a text string, the UTF-8 reading of the message's      *)
(* bytes when m is a byte sequence or a wrapped message.                   *)
(***************************************************************************)
C13_DecryptReturnsTheText ==
    \A m \in SupportedMessages :
        (AccountDecryptsOwn(m) \/ PersonaDecryptsOwn(m))
        => /\ ret.ok
           /\ ret.value = Str(TextOf(m))
           /\ m.t = "string" => ret.value = m

C13_Witness ==
    /\ PersonaDecryptsOwn(Str(<<233>>))
    /\ ret.ok
    /\ ret.value = Str(<<233>>)

\* the latest call was parseMessage, of the account or of the persona held
ParseMessageCalled == call.op \in {"parseMessage", "persona.parseMessage"}

\* parseMessage wrapped the text from its UTF-8 bytes, not from its hex reading
\* (the empty text reads as no bytes either way)
WrappedFromText ==
    /\ ret.ok
    /\ ret.value = [t |-> "SignableMessage", input |-> Bytes(Utf8Encode(call.input.s))]
    /\ (HexDecode(call.input.s).ok /\ call.input.s # <<>>) =>
           ret.value.input.b # HexDecode(call.input.s).bytes

\* parseMessage wrapped the bytes as they are
WrappedFromBytes ==
    /\ ret.ok
    /\ ret.value = [t |-> "SignableMessage", input |-> call.input]

PassedThrough == ret.ok /\ ret.value = call.input

InvalidMessageTypeRaised == ~ret.ok /\ ret.err = InvalidMessageType

(***************************************************************************)
(* C14.  As stated: parseMessage, of Account and of Persona, wraps a text  *)
(* string from its text encoding, wraps a byte sequence directly, returns  *)
(* any object that has an input field as it is, and raises the             *)
(* invalid-message-type error for every other value.                       *)
(***************************************************************************)
C14_PassesAnyObjectWithInput ==
    ParseMessageCalled =>
        CASE call.input.t = "string" -> WrappedFromText
          [] call.input.t = "Uint8Array" -> WrappedFromBytes
          [] "input" \in DOMAIN call.input -> PassedThrough
          [] OTHER -> InvalidMessageTypeRaised

(***************************************************************************)
(* C14, amended.  parseMessage, of Account and of Persona, wraps a text    *)
(* string from its text encoding, wraps a byte sequence directly, returns  *)
(* any other value whose input property is truthy as it is, and raises the *)
(* invalid-message-type error for every other value, an object whose input *)
(* is falsy (0, '') included.                                              *)
(***************************************************************************)
C14_PassesTruthyInput ==
    ParseMessageCalled =>
        CASE call.input.t = "string" -> WrappedFromText
          [] call.input.t = "Uint8Array" -> WrappedFromBytes
          [] /\ "input" \in DOMAIN call.input
             /\ call.input.input \notin {Num(0), Text(""), Null, Undefined, Bool(FALSE)}
               -> PassedThrough
          [] OTHER -> InvalidMessageTypeRaised

C14_Witness ==
    /\ call.op = "persona.parseMessage"
    /\ call.input = [t |-> "object", input |-> Text("")]
    /\ InvalidMessageTypeRaised

\* a value that is no message: no string, no byte sequence, no input field
IsNoMessage(m) ==
    /\ m.t \notin {"string", "Uint8Array", "SignableMessage"}
    /\ "input" \notin DOMAIN m

\* the latest call was a message method of the account held, or of the
\* persona held, that one having the keyring the method needs
MessageMethodCalled ==
    \/ call.op \in {"sign", "verify", "encrypt", "decrypt", "persona.verify"}
    \/ /\ call.op \in {"persona.sign", "persona.encrypt", "persona.decrypt"}
       /\ persona.key.t # "null"

(***************************************************************************)
(* C15.  sign, verify, encrypt and decrypt, of Account and of Persona,     *)
(* raise the invalid-message-type error when the message is no string, no  *)
(* byte sequence and no wrapped message (a number, null, an object without *)
(* input).  decrypt never looks at the shape of its message.               *)
(***************************************************************************)
C15_BadMessageRaisesInvalidMessageType ==
    (MessageMethodCalled /\ IsNoMessage(call.input))
    => (~ret.ok /\ ret.err = InvalidMessageType)

\* params name one of the kinds spender, proposer, voter and a moniker
NamesSpendingKind(p) ==
    /\ p.t = "object"
    /\ "kind" \in DOMAIN p
    /\ p.kind \in {Text("persona.spender"), Text("persona.proposer"),
                   Text("persona.voter")}
    /\ "moniker" \in DOMAIN p
    /\ p.moniker.t = "string"

(***************************************************************************)
(* C16.  For the account held, every call of toPublicKey with the same     *)
(* arguments returned the same key, and the keys returned for two of the   *)
(* kinds spender, proposer, voter under one moniker differ.                *)
(***************************************************************************)
C16_PublicKeysStableAndDistinct ==
    /\ \A p \in KeyParams : \A a, b \in derived.keys[p] : a = b
    /\ \A p, q \in KeyParams :
         (/\ NamesSpendingKind(p)
          /\ NamesSpendingKind(q)
          /\ p.moniker = q.moniker
          /\ p.kind # q.kind)
         => derived.keys[p] \cap derived.keys[q] = {}

C16_Witness ==
    /\ call.op = "toPublicKey"
    /\ \A p \in KeyParams : NamesSpendingKind(p) => derived.keys[p] # {}
    /\ NamesSpendingKind(call.input)
    /\ ret.value \in derived.keys[call.input]

\* the typed sub-key the params name: moniker '' and kind 'persona.owner'
\* standing in for what is absent or null
NamedTypedKey(key, params) ==
    LET absent(name) == \/ params \in {Undefined, Null}
                        \/ name \notin DOMAIN params
                        \/ params[name] \in {Undefined, Null}
    IN  [t |-> "PersonaTypedKey",
         persona |-> [t |-> "PersonaKeyring", accountKeyring |-> key,
                      moniker |-> IF absent("moniker") THEN Text("")
                                  ELSE params.moniker],
         kind |-> IF absent("kind") THEN Text("persona.owner") ELSE params.kind]

OwnerParams == [t |-> "object", kind |-> Text("persona.owner"), moniker |-> Text("")]

(***************************************************************************)
(* C17.  toPublicKey(params) and toPrivateKey(params) return the public    *)
(* and the private key of one typed sub-key: that of the persona keyring   *)
(* for params.moniker ('' when absent or null) and of params.kind          *)
(* ('persona.owner' when absent).  So the public key returned is the       *)
(* public half of the private key returned for the same params, and        *)
(* toPublicKey() returns what toPublicKey({kind: 'persona.owner',          *)
(* moniker: ''}) returns.                                                  *)
(***************************************************************************)
C17_KeysOfOneTypedSubKey ==
    /\ call.op = "toPublicKey" =>
         /\ ret.ok
         /\ ret.value = AsBytes([t |-> "PublicKey",
                                 of |-> NamedTypedKey(account.key, call.input)])
         /\ ret.value =
              AsBytes(getPublicKey(Account_toPrivateKey(account, call.input).value.term))
    /\ call.op = "toPrivateKey" =>
         /\ ret.ok
         /\ ret.value = AsBytes([t |-> "PrivateKey",
                                 of |-> NamedTypedKey(account.key, call.input)])
    /\ \A a \in derived.keys[Undefined], b \in derived.keys[OwnerParams] : a = b

C17_Witness ==
    /\ call.op = "toPublicKey"
    /\ call.input = Undefined
    /\ derived.keys[OwnerParams] # {}
    /\ ret.value \in derived.keys[OwnerParams]

\* the moniker the persona held was asked for: the argument of getPersona,
\* '' for a persona built without a keyring
MonikerAskedFor == IF personaFrom = Null THEN Text("") ELSE personaFrom

(***************************************************************************)
(* C18.  The persona account.getPersona(m) returned holds the moniker m,   *)
(* the one its keyring reports, and getMoniker() returns m at every later  *)
(* call; a persona built without a keyring has no key and the moniker ''.  *)
(***************************************************************************)
C18_MonikerCachedAtConstruction ==
    /\ persona # Undefined =>
         /\ persona.moniker = MonikerAskedFor
         /\ personaFrom = Null => persona.key = Null
         /\ personaFrom # Null =>
              /\ persona.key.t = "PersonaKeyring"
              /\ persona.key.moniker = personaFrom
    /\ call.op = "persona.getMoniker" => (ret.ok /\ ret.value = MonikerAskedFor)

C18_Witness ==
    /\ call.op = "persona.getMoniker"
    /\ personaFrom = Text("alice")
    /\ heap > 0
    /\ ret.value = Text("alice")

\* the latest call was getSigner on a persona with a keyring
SignerHandedOut == call.op = "persona.getSigner" /\ persona.key.t # "null"

\* the signer handed out is over the persona's own key, under its moniker
SignerOfPersona ==
    SignerHandedOut =>
        /\ ret.ok
        /\ ret.value.t = "Signer"
        /\ ret.value.privateKey = [t |-> "PrivateKey", of |-> persona.key]
        /\ ret.value.moniker = persona.moniker

\* on a persona without a keyring the four methods raise the keyring error
KeyringRequired ==
    (/\ call.op \in {"persona.getSigner", "persona.sign", "persona.encrypt",
                     "persona.decrypt"}
     /\ persona.key.t = "null")
    => (~ret.ok /\ ret.err = PersonaKeyringRequired)

\* a step that is a getSigner call hands out a signer made by that call:
\* none of the signers made before it
FreshSigner == SignerHandedOut' => ret'.value.ref \notin 1..heap

(***************************************************************************)
(* C19.  persona.getSigner() returns, at every call, a signer constructed  *)
(* by that call, over the persona's own private key and tagged with the    *)
(* persona's moniker; on a persona without a keyring getSigner, sign,      *)
(* encrypt and decrypt raise the keyring-required error.                   *)
(***************************************************************************)
C19_FreshSignerOrKeyringRequired ==
    /\ [](SignerOfPersona /\ KeyringRequired)
    /\ [][FreshSigner]_vars

C19_Witness ==
    /\ SignerHandedOut
    /\ personaFrom = Text("alice")
    /\ ret.value.ref = 2
    /\ ret.value.moniker = Text("alice")

\* the address slot of the persona held at the index and change flag of the
\* latest call: change 1 for isChange true, 0 for false and for none given
SlotAskedFor ==
    [t |-> "AddressKeyring", parent |-> persona.key, index |-> call.input.n,
     change |-> IF call.opt = Bool(TRUE) THEN 1 ELSE 0]

(***************************************************************************)
(* C20.  persona.getAddressKeyring(index, isChange) returns the address    *)
(* keyring at the index with change 1 when isChange is true and 0 when it  *)
(* is false or omitted, persona.getAddress(index, isChange) the address of *)
(* that keyring under the prefix 'sct'; on a persona without a keyring     *)
(* both return null and raise nothing.                                     *)
(***************************************************************************)
C20_AddressSlotAndChangeFlag ==
    /\ call.op = "persona.getAddressKeyring" =>
         /\ ret.ok
         /\ ret.value = IF persona.key.t = "null" THEN Null ELSE SlotAskedFor
    /\ call.op = "persona.getAddress" =>
         /\ ret.ok
         /\ ret.value = IF persona.key.t = "null" THEN Null
                        ELSE [t |-> "Address", prefix |-> "sct",
                              keyring |-> SlotAskedFor]

C20_Witness ==
    /\ call.op = "persona.getAddressKeyring"
    /\ call.input = Num(1)
    /\ call.opt = Bool(TRUE)
    /\ ret.value.t = "AddressKeyring"
    /\ ret.value.change = 1

\* the operations of an Account
AccountMethods ==
    {"toAddress", "getPersona", "parseMessage", "sign", "verify", "toPublicKey",
     "toPrivateKey", "getSigner", "encrypt", "decrypt"}

\* the signer the constructor of an Account over the keyring k makes
ConstructorSigner(k) ==
    [t |-> "Signer", privateKey |-> [t |-> "PrivateKey", of |-> k],
     moniker |-> Undefined, ref |-> 0]

\* a call of an operation of the account ends, and leaves signer and key alone
AccountCallKeepsSignerAndKey ==
    call'.op \in AccountMethods =>
        /\ account'.signer = account.signer
        /\ account'.key = account.key

(***************************************************************************)
(* C21.  The signer of an Account is the one its constructor made over the *)
(* base private key of the account keyring, and the keyring is the one the *)
(* account was asked for; no call of an operation of the account, failing  *)
(* ones included, getSigner with a moniker included, changes either.       *)
(***************************************************************************)
C21_SignerBoundOnce ==
    /\ [](account # Undefined =>
            /\ account.signer = ConstructorSigner(account.key)
            /\ account.key = [t |-> "AccountKeyring", chain |-> wallet.chainKeyring,
                              account |-> accountFrom.n])
    /\ [][AccountCallKeepsSignerAndKey]_vars

\* getSigner was called with a moniker as often as the bound allows,
\* and the account still has its constructor's signer
C21_Witness ==
    /\ call.op = "getSigner"
    /\ call.input = Text("alice")
    /\ heap = MaxSigners
    /\ ret.value.ref # account.signer.ref
    /\ account.signer = ConstructorSigner(account.key)

\* getSigner was called; a moniker was supplied when the argument is a string
GetSignerCalled == call.op = "getSigner"
MonikerSupplied == call.input.t = "string"

\* the kind a getSigner call names: its second argument, 'persona.spender'
\* when there is none
KindNamed == IF call.opt.t = "undefined" THEN Text("persona.spender") ELSE call.opt

\* the private key toPrivateKey({kind, moniker}) reads for the call's arguments
PersonaAndKindKey ==
    [t |-> "PrivateKey",
     of |-> [t |-> "PersonaTypedKey", kind |-> KindNamed,
             persona |-> [t |-> "PersonaKeyring", accountKeyring |-> account.key,
                          moniker |-> call.input]]]

\* the value returned is a signer constructed by this call, over the base key
NewSignerOverBaseKey ==
    /\ ret.ok
    /\ ret.value.t = "Signer"
    /\ ret.value.ref = heap
    /\ ret.value.ref # account.signer.ref
    /\ ret.value.privateKey = [t |-> "PrivateKey", of |-> account.key]
    /\ ret.value.privateKey # PersonaAndKindKey

\* the value returned is the very signer the account caches
CachedSignerItself == ret.ok /\ ret.value = account.signer

(***************************************************************************)
(* C22.  account.getSigner(moniker, kind) with a moniker supplied returns  *)
(* a new signer, not the cached one, over the base private key of the      *)
(* account for every moniker and kind, never over the key                   *)
(* toPrivateKey({kind, moniker}) returns; without a moniker it returns the *)
(* cached signer itself.                                                   *)
(***************************************************************************)
C22_NewSignerForEveryMoniker ==
    GetSignerCalled =>
        IF MonikerSupplied THEN NewSignerOverBaseKey ELSE CachedSignerItself

\* verify was called and returned
VerifyReturned == call.op = "verify" /\ ret.ok

\* the signature is one the private key made of the message, under the
\* default algorithm
SignatureMadeWith(privateKey, signature, m) ==
    /\ "hexOf" \in DOMAIN signature
    /\ signature.hexOf.t = "Signature"
    /\ signature.hexOf.key = privateKey
    /\ signature.hexOf.msg = Account_parseMessage(account, m).value.input.b
    /\ signature.hexOf.algorithm = DefaultAlgorithm

\* the public key handed to verify as its third argument is not the account's
ForeignKeyHanded ==
    /\ call.opt.second.t = "string"
    /\ call.opt.second.hexOf # [t |-> "PublicKey", of |-> account.key]

(***************************************************************************)
(* C23.  account.verify(signature, message, third) answers whether the     *)
(* account's own key, the one of its cached signer, made the signature of  *)
(* the message, whatever the third argument is: with the public key of     *)
(* another account or of a persona handed in, a signature that key's owner  *)
(* made is still refused and the account's own is still accepted.          *)
(***************************************************************************)
C23_VerifiesAgainstOwnKey ==
    VerifyReturned =>
        ret.value = Bool(SignatureMadeWith(account.signer.privateKey,
                                           call.opt.first, call.input))

\* a signature another signer made, offered with that signer's public key,
\* was refused
C23_Witness ==
    /\ VerifyReturned
    /\ ForeignKeyHanded
    /\ call.opt.first.hexOf.key = [t |-> "PrivateKey", of |-> call.opt.second.hexOf.of]
    /\ call.opt.first.hexOf.msg = <<97>>
    /\ ret.value = Bool(FALSE)

\* the two parseMessage operations
ParseOps == {"parseMessage", "persona.parseMessage"}

\* a Persona that has neither keyring nor moniker
BarePersona == [t |-> "Persona", key |-> Null, moniker |-> Text("")]

\* the outcome of the latest parseMessage call is the one a bare Persona
\* gives for the same argument: no field of the receiver had a part in it
OutcomeOfArgumentAlone ==
    call.op \in ParseOps =>
        LET bare == Persona_parseMessage(BarePersona, call.input)
        IN  /\ ret.ok = bare.ok
            /\ ret.err = bare.err
            /\ ret.value = bare.value

\* a parseMessage call ends and leaves account and persona as they were
ParseChangesNothing ==
    call'.op \in ParseOps => account' = account /\ persona' = persona

\* parseMessage is called on what the same parseMessage just returned, and
\* returns it again
ReparseReturnsSame ==
    (/\ call.op \in ParseOps
     /\ ret.ok
     /\ call'.op = call.op
     /\ call'.input = ret.value) => (ret'.ok /\ ret'.value = ret.value)

(***************************************************************************)
(* C24.  parseMessage is pure and idempotent on its output: for every      *)
(* argument it accepts, parseMessage of what it returned succeeds and      *)
(* returns the same message; its outcome is that of the argument alone and *)
(* the call changes no field of the Account or Persona it is made on.      *)
(***************************************************************************)
C24_ParseMessagePureIdempotent ==
    /\ []OutcomeOfArgumentAlone
    /\ [][ParseChangesNothing /\ ReparseReturnsSame]_vars

\* parseMessage was given the message it made of the text U+00E9 and
\* returned it
C24_Witness ==
    /\ call.op \in ParseOps
    /\ call.input = [t |-> "SignableMessage", input |-> Bytes(<<195, 169>>)]
    /\ ret.ok
    /\ ret.value = call.input

\* the wallet held has a chain keyring
HoldsChainKeyring == wallet.t = "Wallet" /\ wallet.chainKeyring.t = "ChainKeyring"

\* getAccount on the wallet held never fails; on a Wallet object without a
\* chain keyring it raises the keyring-required error
GetAccountFailsOnlyWithoutKeyring ==
    /\ call.op = "getAccount" => ret.ok
    /\ call.op = "bare.getAccount" =>
         ~ret.ok /\ ret.err = WalletAccountKeyringRequired

\* a getAccount call leaves the wallet with the chain keyring it had
GetAccountKeepsChainKeyring ==
    call'.op \in {"getAccount", "bare.getAccount"} => wallet' = wallet

(***************************************************************************)
(* C25.  Every wallet an entry point returns holds a chain keyring, none   *)
(* holds null, and getAccount calls leave it the one it was: getAccount on *)
(* such a wallet never raises the keyring-required error, which getAccount *)
(* on a Wallet object without chain keyring does raise.                    *)
(***************************************************************************)
C25_WalletKeepsChainKeyring ==
    /\ [](wallet # Undefined => HoldsChainKeyring)
    /\ []GetAccountFailsOnlyWithoutKeyring
    /\ [][GetAccountKeepsChainKeyring]_vars

\* a wallet built from the handle record of a keyring handed out an account,
\* and getAccount on a Wallet object without keyring then failed
C25_Witness ==
    /\ origin.op = "new"
    /\ origin.input.t = "object"
    /\ HoldsChainKeyring
    /\ account # Undefined
    /\ call.op = "bare.getAccount"
    /\ call.opt = Null
    /\ ret.err = WalletAccountKeyringRequired

\* the construction entry points
ConstructionOps == {"new", "create", "fromArbitraryInput", "fromMnemonic", "fromSeed"}

\* the places of the chain of calls where the constructor was entered
ConstructorFrames == {i \in DOMAIN ret.trace : ret.trace[i].fn = "constructor"}

\* the constructor is entered again only by fromSeed, with the chain keyring
\* derived, and that call is the last of the chain
ReentersOnlyFromSeed ==
    \A i \in ConstructorFrames :
        i > 1 => /\ ret.trace[i - 1].fn = "fromSeed"
                 /\ ret.trace[i].arg.chainKeyring.t = "ChainKeyring"
                 /\ i = Len(ret.trace)

\* the call ended: with a wallet, which the caller holds, or with an error
EndsInWalletOrError ==
    \/ ret.ok /\ ret.value.t = "Wallet" /\ wallet = ret.value
    \/ ~ret.ok /\ ret.err \in {InvalidInputError, HexError} /\ wallet = Undefined

\* the constructor was handed a record whose chainKeyring is null or
\* undefined, as fromSeed hands it when no chain keyring was derived
HandedNoKeyring ==
    /\ call.op = "new"
    /\ call.input.t = "object"
    /\ "chainKeyring" \in DOMAIN call.input
    /\ call.input.chainKeyring.t \in {"undefined", "null"}

(***************************************************************************)
(* C26.  Every construction call ends, in a wallet or in an error, after a *)
(* chain of at most five calls in which the constructor is entered again   *)
(* at most once, by fromSeed with the keyring derived; the constructor     *)
(* handed a record without chain keyring goes to fromArbitraryInput, which *)
(* raises the invalid-input error, and no further.                         *)
(***************************************************************************)
C26_ConstructionTerminates ==
    call.op \in ConstructionOps =>
        /\ Len(ret.trace) \in 1..5
        /\ Cardinality(ConstructorFrames) <= (IF call.op = "new" THEN 2 ELSE 1)
        /\ ReentersOnlyFromSeed
        /\ EndsInWalletOrError
        /\ HandedNoKeyring =>
             /\ ~ret.ok
             /\ ret.err = InvalidInputError
             /\ Len(ret.trace) = 2
             /\ ret.trace[2].fn = "fromArbitraryInput"

\* new Wallet(phrase) went through fromArbitraryInput, fromMnemonic and
\* fromSeed into the constructor once more, and returned a wallet
C26_Witness ==
    /\ call.op = "new"
    /\ call.input.t = "string"
    /\ Len(ret.trace) = 5
    /\ Cardinality(ConstructorFrames) = 2
    /\ ret.trace[4].fn = "fromSeed"
    /\ ret.ok

\* the moniker a call names: the argument of getPersona and getSigner, the
\* moniker property of the argument of toPublicKey and toPrivateKey
EmptyMonikerNamed ==
    \/ call.op \in {"getPersona", "getSigner"} /\ call.input = Text("")
    \/ /\ call.op \in {"toPublicKey", "toPrivateKey"}
       /\ call.input.t = "object"
       /\ call.input.moniker = Text("")

\* the persona keyring of the account held for the empty moniker
EmptyMonikerKeyring ==
    [t |-> "PersonaKeyring", accountKeyring |-> account.key, moniker |-> Text("")]

\* the call worked on the persona of the empty moniker
EmptyMonikerHonoured ==
    /\ ret.ok
    /\ call.op = "getPersona" =>
         ret.value.key = EmptyMonikerKeyring /\ ret.value.moniker = Text("")
    /\ call.op \in {"toPublicKey", "toPrivateKey"} =>
         ret.value.term.of.persona = EmptyMonikerKeyring

(***************************************************************************)
(* C27.  account.getSigner('') and account.getSigner('', kind) return the  *)
(* cached signer itself, as getSigner() does, and construct no signer,     *)
(* while getPersona('') and toPublicKey / toPrivateKey with moniker ''     *)
(* work on the persona keyring of the empty moniker.                       *)
(***************************************************************************)
C27_EmptyMonikerAsAbsent ==
    EmptyMonikerNamed =>
        IF GetSignerCalled
        THEN CachedSignerItself /\ ret.value.ref = 0
        ELSE EmptyMonikerHonoured

\* getSigner('', kind) returned the cached signer after getSigner had
\* constructed one for another moniker
C27_Witness ==
    /\ GetSignerCalled
    /\ call.input = Text("")
    /\ call.opt = Text("persona.voter")
    /\ heap > 0
    /\ ret.value = account.signer

\* the persona held was built without a keyring
KeylessPersona == persona # Undefined /\ persona.key.t = "null"

\* the operations of a Persona that go through its getSigner
PersonaSignerOps ==
    {"persona.getSigner", "persona.sign", "persona.encrypt", "persona.decrypt"}

\* the signature handed to verify is one the owner of the public key handed
\* with it made of the message
MadeByOwnerOfKey(signature, m, publicKey) ==
    /\ publicKey.t = "string"
    /\ signature.hexOf.msg = Persona_parseMessage(persona, m).value.input.b
    /\ publicKey.hexOf = [t |-> "PublicKey", of |-> signature.hexOf.key.of]

\* verify on a persona without keyring: the result for the key supplied, or
\* the error of a value that is no message
KeylessVerifyAnswers ==
    (KeylessPersona /\ call.op = "persona.verify") =>
        IF IsSupportedMessage(call.input)
        THEN /\ ret.ok
             /\ ret.value = Bool(MadeByOwnerOfKey(call.opt.first, call.input,
                                                  call.opt.second))
        ELSE ~ret.ok /\ ret.err = InvalidMessageType

\* the operations that need the signer fail on it
KeylessSignerOpsFail ==
    (KeylessPersona /\ call.op \in PersonaSignerOps) =>
        ~ret.ok /\ ret.err = PersonaKeyringRequired

\* a call on the account or the persona fails and leaves both as they were
FailedCallChangesNothing ==
    (~ret'.ok /\ call'.op \notin {"getPersona", "newPersona"}) =>
        account' = account /\ persona' = persona

====
